---- MODULE Spec2Model ----
(***************************************************************************)
(* A model of the concurrent, node-addressable doubly linked list of       *)
(* src/src/lib.rs: List (head/tail slots, each a Mutex<Weak<Node>>), Node  *)
(* (Mutex around parent/prev/next weak references), and the operations     *)
(* push_back, put_back, head, Node::remove and Node::next.  Every blocking *)
(* lock acquisition of the code starts a step of its own, so interleavings *)
(* of threads and lock cycles are those of the code.                       *)
(***************************************************************************)
EXTENDS Integers, Sequences, FiniteSets, TLC

\* ------------------------------------------------------------------ bounds
MaxNodes == 4      \* size of the universe of node ids
NumLists == 2      \* size of the universe of list ids
NumThreads == 2    \* size of the universe of thread ids
SeqCap == 4        \* nodes a single-threaded run may create
ConcCap == 3       \* nodes a concurrent run may create
DropCap == 3       \* nodes a run with handle drops may create

\* Weak::new(): a weak reference that resolves to nothing.
None == 0
NoList == 0
\* A mutex nobody holds.
NoThread == 0

Nodes == 1..MaxNodes
Lists == 1..NumLists
Threads == 1..NumThreads

VARIABLES
    node,       \* node[n] = [parent, prev, next]: the weak references of Node
    list,       \* list[l] = [head, tail]: the weak references of List
    holder,     \* holder[m]: the thread holding mutex m, or NoThread
    poisoned,   \* the mutexes whose holder panicked
    alloc,      \* number of nodes created so far (ids 1..alloc)
    owner,      \* owner[n]: the thread whose caller code owns n's handle
    handles,    \* nodes whose ArcNode handle (from push_back) is retained
    lheld,      \* lists whose Arc<List> is retained by the callers
    th,         \* th[t]: position and locals of thread t
    build,      \* "any" until a debug assertion fails, then "debug" | "release"
    order,      \* history: order[l] = nodes by their latest push_back/put_back
    pre,        \* history: the structure when the running operation began
    det,        \* history: the structure when put_back's detach returned
    last,       \* history: the remove that returned last, if the last call was one
    iter        \* history: iter[t] = what put_back's current iteration began with

calls == <<order, pre, det, last>>
ghost == <<order, pre, det, last, iter>>
vars == <<node, list, holder, poisoned, alloc, owner, handles, lheld, th, build,
          order, pre, det, last, iter>>

\* ----------------------------------------------------------------- mutexes
NodeMx(n) == <<"node", n>>
HeadMx(l) == <<"head", l>>
TailMx(l) == <<"tail", l>>
Mutexes == {NodeMx(n) : n \in Nodes} \cup {HeadMx(l) : l \in Lists}
                \cup {TailMx(l) : l \in Lists}

Release(h, ms) == [m \in DOMAIN h |-> IF m \in ms THEN NoThread ELSE h[m]]
Acquire(h, m, t) == [h EXCEPT ![m] = t]

\* ------------------------------------------------------- reference counts
IdleTh == [pc |-> "idle", op |-> "none", self |-> None, list |-> NoList,
           parent |-> NoList, prev |-> None, next |-> None, tail |-> None,
           cur |-> None]

\* Arc::strong_count of node n: the retained handle plus every upgraded
\* reference a running operation holds in a local.
Strong(n) ==
    (IF n \in handles THEN 1 ELSE 0)
    + Cardinality({t \in Threads : th[t].prev = n})
    + Cardinality({t \in Threads : th[t].next = n})
    + Cardinality({t \in Threads : th[t].tail = n})
    + Cardinality({t \in Threads : th[t].cur = n})

Live(n) == n \in Nodes /\ Strong(n) > 0

\* Weak::upgrade on a node reference.
Upgrade(w) == IF w # None /\ Live(w) THEN w ELSE None

\* Arc::strong_count of list l: the callers' handle plus every upgraded
\* parent a running remove holds.
ListStrong(l) ==
    (IF l \in lheld THEN 1 ELSE 0)
    + Cardinality({t \in Threads : th[t].parent = l})

\* A parent reference that would own the list: it always resolves.
UpgradeListOwning(w) == w

\* Weak::upgrade on a node's parent reference.
UpgradeList(w) == IF w # NoList /\ ListStrong(w) > 0 THEN w ELSE NoList

\* -------------------------------------------------------------------- init
Init ==
    /\ node = [n \in Nodes |-> [parent |-> NoList, prev |-> None, next |-> None]]
    /\ list = [l \in Lists |-> [head |-> None, tail |-> None]]
    /\ holder = [m \in Mutexes |-> NoThread]
    /\ poisoned = {}
    /\ alloc = 0
    /\ owner = [n \in Nodes |-> NoThread]
    /\ handles = {}
    /\ lheld = Lists
    /\ th = [t \in Threads |-> IdleTh]
    /\ build = "any"
    /\ order = [l \in Lists |-> <<>>]
    /\ pre = <<>>
    /\ det = <<>>
    /\ last = <<>>
    /\ iter = [t \in Threads |-> <<>>]

\* ------------------------------------------------------------------ panic
\* A panic unwinds thread t: every guard it holds is dropped, which poisons
\* the mutex, its locals (upgraded references) are dropped, and the thread
\* ends.  A panic inside push_back also drops `new`, the only handle.
Panic(t) ==
    /\ holder' = [m \in Mutexes |-> IF holder[m] = t THEN NoThread ELSE holder[m]]
    /\ poisoned' = poisoned \cup {m \in Mutexes : holder[m] = t}
    /\ handles' = IF th[t].op = "push" THEN handles \ {th[t].self} ELSE handles
    /\ th' = [th EXCEPT ![t] = [IdleTh EXCEPT !.pc = "panicked"]]

\* A debug assertion that fails: a debug build panics, a release build does
\* not evaluate it.  The build is the same for the whole run.
DebugBuild == build \in {"any", "debug"}
ReleaseBuild == build \in {"any", "release"}

\* ------------------------------------------------------------ caller steps
\* List::push_back, lines 32-34: Node::new(data), then put_back(&new).
NewNode == [parent |-> NoList, prev |-> None, next |-> None]

StartPush(t, l, cap) ==
    /\ th[t].pc = "idle"
    /\ l \in lheld
    /\ alloc < cap
    /\ alloc' = alloc + 1
    /\ node' = [node EXCEPT ![alloc + 1] = NewNode]
    /\ handles' = handles \cup {alloc + 1}
    /\ owner' = [owner EXCEPT ![alloc + 1] = t]
    /\ th' = [th EXCEPT ![t] = [IdleTh EXCEPT !.pc = "lock", !.op = "push",
                                             !.self = alloc + 1, !.list = l]]
    /\ UNCHANGED <<list, holder, poisoned, lheld, build>>

\* A caller invokes Node::new(data) (lines 99-106) and keeps the handle.
StartNew(t, cap) ==
    /\ th[t].pc = "idle"
    /\ alloc < cap
    /\ alloc' = alloc + 1
    /\ node' = [node EXCEPT ![alloc + 1] = NewNode]
    /\ handles' = handles \cup {alloc + 1}
    /\ owner' = [owner EXCEPT ![alloc + 1] = t]
    /\ UNCHANGED <<list, holder, poisoned, lheld, th, build>>

\* A caller invokes list.put_back(&node) on a node it owns.
StartPut(t, l, n) ==
    /\ th[t].pc = "idle"
    /\ l \in lheld
    /\ n \in handles
    /\ owner[n] = t
    /\ th' = [th EXCEPT ![t] = [IdleTh EXCEPT !.pc = "lock", !.op = "put",
                                             !.self = n, !.list = l]]
    /\ UNCHANGED <<node, list, holder, poisoned, alloc, owner, handles, lheld, build>>

\* A caller invokes node.lock().unwrap().remove() on a node it owns.
StartRemove(t, n) ==
    /\ th[t].pc = "idle"
    /\ n \in handles
    /\ owner[n] = t
    /\ th' = [th EXCEPT ![t] = [IdleTh EXCEPT !.pc = "lock", !.op = "remove",
                                             !.self = n]]
    /\ UNCHANGED <<node, list, holder, poisoned, alloc, owner, handles, lheld, build>>

\* node.lock().unwrap(): the blocking acquisition of the node's own mutex
\* (put_back line 47, or the caller's lock before remove).
LockSelf(t) ==
    /\ th[t].pc = "lock"
    /\ holder[NodeMx(th[t].self)] = NoThread
    /\ IF NodeMx(th[t].self) \in poisoned
       THEN Panic(t) /\ UNCHANGED <<node, list, alloc, owner, lheld, build>>
       ELSE /\ holder' = Acquire(holder, NodeMx(th[t].self), t)
            /\ th' = [th EXCEPT ![t].pc = "rm_take"]
            /\ UNCHANGED <<node, list, poisoned, alloc, owner, handles, lheld, build>>

\* ------------------------------------------------------------ Node::remove
\* Where remove returns to: the caller of remove drops the node's guard,
\* put_back goes on to its loop with the guard held.
AfterRemovePc(t) == IF th[t].op = "remove" THEN "done" ELSE "pb_tail"
AfterRemoveDrop(t) == IF th[t].op = "remove" THEN {NodeMx(th[t].self)} ELSE {}
ReturnFromRemove(t) ==
    [th[t] EXCEPT !.pc = AfterRemovePc(t), !.parent = NoList,
                  !.prev = None, !.next = None]

\* A remove that reads the parent and leaves it in the node.
TakeParentKept(nd, n) == nd

\* take_weak on the three fields (lines 128, 136): each is left Weak::new().
TakeParent(nd, n) == [nd EXCEPT ![n].parent = NoList]
\* A remove that leaves the node's own next in place.
TakeLinksPrevOnly(nd, n) == [nd EXCEPT ![n].prev = None]
TakeLinks(nd, n) == [nd EXCEPT ![n].prev = None, ![n].next = None]

\* A match that handles a node with both neighbours as the tail of the list.
RemoveCaseMiddleAsTail(pv, nx) ==
    IF pv = None /\ nx = None THEN "rm_sole_tail"
    ELSE IF pv = None THEN "rm_head_head"
    ELSE "rm_tail_tail"

\* A match that handles a node with both neighbours as the head of the list.
RemoveCaseNoMiddle(pv, nx) ==
    IF pv = None /\ nx = None THEN "rm_sole_tail"
    ELSE IF nx = None THEN "rm_tail_tail"
    ELSE "rm_head_head"

\* The case of the match at line 136.
RemoveCase(pv, nx) ==
    IF pv = None /\ nx = None THEN "rm_sole_tail"
    ELSE IF pv = None THEN "rm_head_head"
    ELSE IF nx = None THEN "rm_tail_tail"
    ELSE "rm_mid_prev"

\* Lines 128-136: take parent; if it does not resolve, check the two debug
\* assertions and return; otherwise take prev and next and pick the case.
RmTake(t) ==
    LET n == th[t].self
        p == UpgradeList(node[n].parent)
        pv == Upgrade(node[n].prev)
        nx == Upgrade(node[n].next)
    IN
    /\ th[t].pc = "rm_take"
    /\ IF p = NoList
       THEN IF pv = None /\ nx = None
            THEN /\ node' = TakeParent(node, n)
                 /\ holder' = Release(holder, AfterRemoveDrop(t))
                 /\ th' = [th EXCEPT ![t] = ReturnFromRemove(t)]
                 /\ UNCHANGED <<list, poisoned, alloc, owner, handles, lheld, build>>
            ELSE \/ /\ DebugBuild
                    /\ build' = "debug"
                    /\ node' = TakeParent(node, n)
                    /\ Panic(t)
                    /\ UNCHANGED <<list, alloc, owner, lheld>>
                 \/ /\ ReleaseBuild
                    /\ build' = "release"
                    /\ node' = TakeParent(node, n)
                    /\ holder' = Release(holder, AfterRemoveDrop(t))
                    /\ th' = [th EXCEPT ![t] = ReturnFromRemove(t)]
                    /\ UNCHANGED <<list, poisoned, alloc, owner, handles, lheld>>
       ELSE /\ node' = TakeLinks(TakeParent(node, n), n)
            /\ th' = [th EXCEPT ![t].parent = p, ![t].prev = pv, ![t].next = nx,
                                ![t].pc = RemoveCase(pv, nx)]
            /\ UNCHANGED <<list, holder, poisoned, alloc, owner, handles, lheld, build>>

\* A blocking lock().unwrap() of mutex m by thread t that only moves on.
LockStep(t, m, to) ==
    /\ holder[m] = NoThread
    /\ IF m \in poisoned
       THEN Panic(t) /\ UNCHANGED <<node, list, alloc, owner, lheld, build>>
       ELSE /\ holder' = Acquire(holder, m, t)
            /\ th' = [th EXCEPT ![t].pc = to]
            /\ UNCHANGED <<node, list, poisoned, alloc, owner, handles, lheld, build>>

\* Only element, line 139: parent.tail.lock().
RmSoleTail(t) ==
    /\ th[t].pc = "rm_sole_tail"
    /\ LockStep(t, TailMx(th[t].parent), "rm_sole_head")

\* Lines 140-141: both slots become Weak::new().
SoleUnlink(ls, p) == [ls EXCEPT ![p] = [head |-> None, tail |-> None]]

\* Only element, lines 140-142: parent.head.lock(), clear head, clear tail,
\* drop the guards.
RmSoleHead(t) ==
    LET p == th[t].parent
    IN
    /\ th[t].pc = "rm_sole_head"
    /\ holder[HeadMx(p)] = NoThread
    /\ IF HeadMx(p) \in poisoned
       THEN Panic(t) /\ UNCHANGED <<node, list, alloc, owner, lheld, build>>
       ELSE /\ list' = SoleUnlink(list, p)
            /\ holder' = Release(holder, {TailMx(p)} \cup AfterRemoveDrop(t))
            /\ th' = [th EXCEPT ![t] = ReturnFromRemove(t)]
            /\ UNCHANGED <<node, poisoned, alloc, owner, handles, lheld, build>>

\* Head of the list, line 145: parent.head.lock().
RmHeadHead(t) ==
    /\ th[t].pc = "rm_head_head"
    /\ LockStep(t, HeadMx(th[t].parent), "rm_head_next")

\* A remove of the head that leaves the head slot on the removed node.
HeadUnlinkListKept(ls, p, nx) == ls

\* A remove of the head that leaves the new head's prev in place.
HeadUnlinkNodeKept(nd, nx) == nd

\* Lines 147-148.
HeadUnlinkList(ls, p, nx) == [ls EXCEPT ![p].head = nx]
HeadUnlinkNode(nd, nx) == [nd EXCEPT ![nx].prev = None]

\* Head of the list, line 146: next.lock().  While it is held, a try_lock
\* of that node by a put_back fails.
RmHeadNext(t) ==
    /\ th[t].pc = "rm_head_next"
    /\ LockStep(t, NodeMx(th[t].next), "rm_head_fix")

\* Head of the list, lines 147-149: head = next, next.prev cleared, guards
\* dropped.
RmHeadFix(t) ==
    LET p == th[t].parent
        nx == th[t].next
    IN
    /\ th[t].pc = "rm_head_fix"
    /\ list' = HeadUnlinkList(list, p, nx)
    /\ node' = HeadUnlinkNode(node, nx)
    /\ holder' = Release(holder, {HeadMx(p), NodeMx(nx)} \cup AfterRemoveDrop(t))
    /\ th' = [th EXCEPT ![t] = ReturnFromRemove(t)]
    /\ UNCHANGED <<poisoned, alloc, owner, handles, lheld, build>>

\* Tail of the list, line 152: parent.tail.lock().
RmTailTail(t) ==
    /\ th[t].pc = "rm_tail_tail"
    /\ LockStep(t, TailMx(th[t].parent), "rm_tail_prev")

\* A remove of the tail that leaves the new tail's next in place.
TailUnlinkNodeKept(nd, pv) == nd

\* A remove of the tail that leaves the tail slot on the removed node.
TailUnlinkListKept(ls, p, pv) == ls

\* Lines 154-155.
TailUnlinkList(ls, p, pv) == [ls EXCEPT ![p].tail = pv]
TailUnlinkNode(nd, pv) == [nd EXCEPT ![pv].next = None]

\* Tail of the list, lines 153-156: prev.lock(), tail = prev, prev.next
\* cleared, guards dropped.  One step: the tail slot is held, so no put_back
\* can be at its try_lock of prev while prev is locked here.
RmTailPrev(t) ==
    LET p == th[t].parent
        pv == th[t].prev
    IN
    /\ th[t].pc = "rm_tail_prev"
    /\ holder[NodeMx(pv)] = NoThread
    /\ IF NodeMx(pv) \in poisoned
       THEN Panic(t) /\ UNCHANGED <<node, list, alloc, owner, lheld, build>>
       ELSE /\ list' = TailUnlinkList(list, p, pv)
            /\ node' = TailUnlinkNode(node, pv)
            /\ holder' = Release(holder, {TailMx(p)} \cup AfterRemoveDrop(t))
            /\ th' = [th EXCEPT ![t] = ReturnFromRemove(t)]
            /\ UNCHANGED <<poisoned, alloc, owner, handles, lheld, build>>

\* Middle of the list, line 159: prev.lock().
RmMidPrev(t) ==
    /\ th[t].pc = "rm_mid_prev"
    /\ LockStep(t, NodeMx(th[t].prev), "rm_mid_next")

\* A remove that splices only one direction.
MidUnlinkOneWay(nd, pv, nx) == [nd EXCEPT ![nx].prev = pv]

\* Lines 161-162.
MidUnlink(nd, pv, nx) == [nd EXCEPT ![pv].next = nx, ![nx].prev = pv]

\* Middle of the list, line 160: next.lock().  While it is held, a try_lock
\* of that node by a put_back fails.
RmMidNext(t) ==
    /\ th[t].pc = "rm_mid_next"
    /\ LockStep(t, NodeMx(th[t].next), "rm_mid_fix")

\* Middle of the list, lines 161-163: splice prev and next together, guards
\* dropped.
RmMidFix(t) ==
    LET pv == th[t].prev
        nx == th[t].next
    IN
    /\ th[t].pc = "rm_mid_fix"
    /\ node' = MidUnlink(node, pv, nx)
    /\ holder' = Release(holder, {NodeMx(pv), NodeMx(nx)} \cup AfterRemoveDrop(t))
    /\ th' = [th EXCEPT ![t] = ReturnFromRemove(t)]
    /\ UNCHANGED <<list, poisoned, alloc, owner, handles, lheld, build>>

\* ----------------------------------------------------------- List::put_back
\* A put_back that sets the parent but not the prev of the node.
SetParentOnly(nd, n, l, tl) == [nd EXCEPT ![n].parent = l]

\* Lines 52-53: parent = downgrade(self), prev = clone of the tail slot.
SetParentPrev(nd, n, l, tl) == [nd EXCEPT ![n].parent = l, ![n].prev = tl]

\* Lines 51-54: self.tail.lock(), set the node's parent and prev, upgrade
\* the old tail.
PbTail(t) ==
    LET n == th[t].self
        l == th[t].list
        old == Upgrade(list[l].tail)
    IN
    /\ th[t].pc = "pb_tail"
    /\ holder[TailMx(l)] = NoThread
    /\ IF TailMx(l) \in poisoned
       THEN Panic(t) /\ UNCHANGED <<node, list, alloc, owner, lheld, build>>
       ELSE /\ holder' = Acquire(holder, TailMx(l), t)
            /\ node' = SetParentPrev(node, n, l, list[l].tail)
            /\ th' = [th EXCEPT ![t].tail = old,
                                ![t].pc = IF old = None THEN "pb_head" ELSE "pb_try"]
            /\ UNCHANGED <<list, poisoned, alloc, owner, handles, lheld, build>>

\* A put_back that forgets to link the old tail to the node.
LinkOldTailSkipped(nd, old, n) == nd

\* Line 58: the old tail's next becomes the node.
LinkOldTail(nd, old, n) == [nd EXCEPT ![old].next = n]

\* Lines 57-62: try_lock on the old tail.  Held by anyone (this thread
\* included): drop the tail slot's guard and start the loop again.
\* Acquired: set its next and drop its guard.
PbTry(t) ==
    LET n == th[t].self
        l == th[t].list
        old == th[t].tail
    IN
    /\ th[t].pc = "pb_try"
    /\ IF holder[NodeMx(old)] # NoThread
       THEN /\ holder' = Release(holder, {TailMx(l)})
            /\ th' = [th EXCEPT ![t].tail = None, ![t].pc = "pb_tail"]
            /\ UNCHANGED <<node, list, poisoned, alloc, owner, handles, lheld, build>>
       ELSE IF NodeMx(old) \in poisoned
       THEN Panic(t) /\ UNCHANGED <<node, list, alloc, owner, lheld, build>>
       ELSE /\ node' = LinkOldTail(node, old, n)
            /\ th' = [th EXCEPT ![t].tail = None, ![t].pc = "pb_head"]
            /\ UNCHANGED <<list, holder, poisoned, alloc, owner, handles, lheld, build>>

\* A put_back that never sets the head slot.
HeadAfterPutNever(l, n) == list[l].head

\* Lines 65-68: head is set only when it resolves to no live node.
HeadAfterPut(l, n) == IF Upgrade(list[l].head) = None THEN n ELSE list[l].head
\* Line 71.
TailAfterPut(l, n) == n

\* Lines 64-73: self.head.lock(), set head if the list is empty, set tail,
\* drop the guards of head and, leaving the loop, of tail.
PbHead(t) ==
    LET n == th[t].self
        l == th[t].list
    IN
    /\ th[t].pc = "pb_head"
    /\ holder[HeadMx(l)] = NoThread
    /\ IF HeadMx(l) \in poisoned
       THEN Panic(t) /\ UNCHANGED <<node, list, alloc, owner, lheld, build>>
       ELSE /\ list' = [list EXCEPT ![l] = [head |-> HeadAfterPut(l, n),
                                            tail |-> TailAfterPut(l, n)]]
            /\ holder' = Release(holder, {TailMx(l)})
            /\ th' = [th EXCEPT ![t].pc = "pb_ret"]
            /\ UNCHANGED <<node, poisoned, alloc, owner, handles, lheld, build>>

\* Line 74: put_back returns and node_lock, the guard of the moved node, is
\* dropped.  Until then a try_lock of the node, now the tail, fails.
PbRet(t) ==
    /\ th[t].pc = "pb_ret"
    /\ holder' = Release(holder, {NodeMx(th[t].self)})
    /\ th' = [th EXCEPT ![t].pc = IF th[t].op = "push" THEN "pb_assert"
                                                        ELSE "done"]
    /\ UNCHANGED <<node, list, poisoned, alloc, owner, handles, lheld, build>>

\* Line 35: debug_assert_eq!(Arc::strong_count(&new), 1).
PushAssertOk(n) == Strong(n) = 1

PbAssert(t) ==
    /\ th[t].pc = "pb_assert"
    /\ IF PushAssertOk(th[t].self)
       THEN /\ th' = [th EXCEPT ![t].pc = "done"]
            /\ UNCHANGED <<node, list, holder, poisoned, alloc, owner, handles,
                           lheld, build>>
       ELSE \/ /\ DebugBuild
               /\ build' = "debug"
               /\ Panic(t)
               /\ UNCHANGED <<node, list, alloc, owner, lheld>>
            \/ /\ ReleaseBuild
               /\ build' = "release"
               /\ th' = [th EXCEPT ![t].pc = "done"]
               /\ UNCHANGED <<node, list, holder, poisoned, alloc, owner,
                              handles, lheld>>

\* The operation has returned to its caller; its locals are gone.
Done(t) ==
    /\ th[t].pc = "done"
    /\ th' = [th EXCEPT ![t] = IdleTh]
    /\ UNCHANGED <<node, list, holder, poisoned, alloc, owner, handles, lheld, build>>

\* ------------------------------------------------- List::head, Node::next
\* A reader walks the list as the test does: list.head(), then for each
\* node lock it and take this.next().
StartHead(t, l) ==
    /\ th[t].pc = "idle"
    /\ l \in lheld
    /\ th' = [th EXCEPT ![t] = [IdleTh EXCEPT !.pc = "hd", !.op = "head",
                                             !.list = l]]
    /\ UNCHANGED <<node, list, holder, poisoned, alloc, owner, handles, lheld, build>>

\* Lines 78-80: self.head.lock().unwrap().upgrade(); the guard is dropped
\* at the end of the statement.
HdRead(t) ==
    LET l == th[t].list
        c == Upgrade(list[l].head)
    IN
    /\ th[t].pc = "hd"
    /\ holder[HeadMx(l)] = NoThread
    /\ IF HeadMx(l) \in poisoned
       THEN Panic(t) /\ UNCHANGED <<node, list, alloc, owner, lheld, build>>
       ELSE /\ th' = [th EXCEPT ![t].cur = c,
                                ![t].pc = IF c = None THEN "done" ELSE "nx"]
            /\ UNCHANGED <<node, list, holder, poisoned, alloc, owner, handles,
                           lheld, build>>

\* Lines 170-172 under the caller's lock of the node: temp.lock().unwrap(),
\* this.next(), then the guard and the handle of the node are dropped.
NxRead(t) ==
    LET c == th[t].cur
        nx == Upgrade(node[c].next)
    IN
    /\ th[t].pc = "nx"
    /\ holder[NodeMx(c)] = NoThread
    /\ IF NodeMx(c) \in poisoned
       THEN Panic(t) /\ UNCHANGED <<node, list, alloc, owner, lheld, build>>
       ELSE /\ th' = [th EXCEPT ![t].cur = nx,
                                ![t].pc = IF nx = None THEN "done" ELSE "nx"]
            /\ UNCHANGED <<node, list, holder, poisoned, alloc, owner, handles,
                           lheld, build>>

\* ------------------------------------------------------------------- drops
\* The caller drops the handle push_back returned (no Drop impl exists for
\* Node: nothing else happens).
DropNode(t, n) ==
    /\ th[t].pc = "idle"
    /\ n \in handles
    /\ owner[n] = t
    /\ handles' = handles \ {n}
    /\ UNCHANGED <<node, list, holder, poisoned, alloc, owner, lheld, th, build>>

\* The callers drop their last Arc<List>; no List method is running on it.
DropList(l) ==
    /\ l \in lheld
    /\ \A t \in Threads : th[t].list # l
    /\ lheld' = lheld \ {l}
    /\ UNCHANGED <<node, list, holder, poisoned, alloc, owner, handles, th, build>>

\* --------------------------------------------------------------- traversal
\* The structure as a value, so that an earlier one can be compared.
SnapshotOf(ls, nd, lv) == [list |-> ls, node |-> nd, live |-> lv]
LiveNodes == {n \in Nodes : Live(n)}
Snapshot == SnapshotOf(list, node, LiveNodes)

\* Node::next repeated (lines 170-172): follow next while it upgrades.  The
\* fuel makes a cyclic chain show as a walk longer than any list.
RECURSIVE Walk(_, _, _, _)
Walk(nd, lv, w, fuel) ==
    IF w = None \/ w \notin lv \/ fuel = 0
    THEN <<>>
    ELSE <<w>> \o Walk(nd, lv, nd[w].next, fuel - 1)

\* The test's traversal (lines 194-201): list.head(), then next until none.
Traverse(S, l) == Walk(S.node, S.live, S.list[l].head, MaxNodes + 1)
Traversal(l) == Traverse(Snapshot, l)

Range(s) == {s[i] : i \in 1..Len(s)}
Without(s, n) == SelectSeq(s, LAMBDA x : x # n)

\* ------------------------------------------ the operations as functions
\* Weak::upgrade on a node reference, in a recorded structure S.
UpgradeIn(S, w) == IF w # None /\ w \in S.live THEN w ELSE None

\* Node::remove (lines 127-165) run to its return without interference, on
\* structure S whose lists are all alive: the writes of its steps in turn.
DetachOf(S, n) ==
    LET p == S.node[n].parent
        pv == UpgradeIn(S, S.node[n].prev)
        nx == UpgradeIn(S, S.node[n].next)
        taken == TakeLinks(TakeParent(S.node, n), n)
        c == RemoveCase(pv, nx)
    IN
    IF p = NoList
    THEN [S EXCEPT !.node = TakeParent(S.node, n)]
    ELSE IF c = "rm_sole_tail"
    THEN [S EXCEPT !.node = taken, !.list = SoleUnlink(S.list, p)]
    ELSE IF c = "rm_head_head"
    THEN [S EXCEPT !.node = HeadUnlinkNode(taken, nx),
                   !.list = HeadUnlinkList(S.list, p, nx)]
    ELSE IF c = "rm_tail_tail"
    THEN [S EXCEPT !.node = TailUnlinkNode(taken, pv),
                   !.list = TailUnlinkList(S.list, p, pv)]
    ELSE [S EXCEPT !.node = MidUnlink(taken, pv, nx)]

\* The loop of put_back (lines 50-73) when the try_lock succeeds, on S.
AppendOf(S, l, n) ==
    LET tl == S.list[l].tail
        old == UpgradeIn(S, tl)
        set == SetParentPrev(S.node, n, l, tl)
        hd == IF UpgradeIn(S, S.list[l].head) = None THEN n ELSE S.list[l].head
    IN
    [S EXCEPT !.node = IF old = None THEN set ELSE LinkOldTail(set, old, n),
              !.list = [S.list EXCEPT ![l] = [head |-> hd,
                                              tail |-> TailAfterPut(l, n)]]]

\* List::put_back (lines 46-74): the detach, then the loop.
PutBackOf(S, l, n) == AppendOf(DetachOf(S, n), l, n)


\* ------------------------------------------------------------------ history
RemovePcs == {"rm_take", "rm_sole_head", "rm_head_fix", "rm_tail_prev",
              "rm_mid_fix"}

\* History of a single-threaded run, kept beside the program's state:
\* order[l] lists the members of l by their latest push_back/put_back (a
\* detach or a dropped handle takes the node out), pre is the structure at
\* the call, det the structure when put_back's detach returned.
History(t) ==
    LET n == th[t].self
        detached == th[t].pc \in RemovePcs /\ th'[t].pc \in {"pb_tail", "done"}
        put == th[t].pc = "pb_head" /\ th'[t].pc = "pb_ret"
        out == [l \in Lists |-> Without(order[l], n)]
    IN
    /\ pre' = IF th[t].pc = "idle" /\ th'[t].pc # "idle" THEN Snapshot
              ELSE IF th'[t].pc \in {"idle", "panicked"} THEN <<>>
              ELSE pre
    /\ det' = IF detached /\ th'[t].pc = "pb_tail"
              THEN SnapshotOf(list', node', {m \in Nodes : Live(m)'})
              ELSE IF th'[t].pc \in {"idle", "panicked"} THEN <<>>
              ELSE det
    /\ order' = IF detached THEN out
                ELSE IF put THEN [out EXCEPT ![th[t].list] = Append(@, n)]
                ELSE order

\* History of the calls of a single-threaded run: last is the node and the
\* structure at the call of the caller's remove that has just returned; it
\* is forgotten when a call on another node, or a push_back, begins.
Last(t) ==
    last' = IF th[t].pc = "done" /\ th'[t].pc = "idle"
            THEN IF th[t].op = "remove"
                 THEN [self |-> th[t].self, pre |-> pre]
                 ELSE <<>>
            ELSE IF th'[t].pc = "panicked" THEN <<>>
            ELSE IF th[t].pc = "idle" /\ last # <<>>
                    /\ (th'[t].op = "push" \/ th'[t].self # last.self)
            THEN <<>>
            ELSE last

\* History of put_back's loop in thread t: when an iteration begins (the
\* tail slot is acquired, line 51), iter[t] records the moved node's fields
\* and the tail slot as they were; it is forgotten when put_back ends.
Iter(t) ==
    iter' = IF th[t].pc = "pb_tail" /\ th'[t].pc \in {"pb_try", "pb_head"}
            THEN [iter EXCEPT ![t] = [node |-> node[th[t].self],
                                      tail |-> list[th[t].list].tail]]
            ELSE IF th'[t].pc \in {"pb_tail", "pb_try", "pb_head"} THEN iter
            ELSE [iter EXCEPT ![t] = <<>>]

\* ----------------------------------------------------------- specifications
\* One thread: push_back, put_back (onto any list) and remove, every handle
\* retained.
NextSeq ==
    \/ \E l \in Lists : StartPush(1, l, SeqCap) /\ History(1) /\ Last(1) /\ UNCHANGED iter
    \/ \E l \in Lists, n \in Nodes : StartPut(1, l, n) /\ History(1) /\ Last(1) /\ UNCHANGED iter
    \/ \E n \in Nodes : StartRemove(1, n) /\ History(1) /\ Last(1) /\ UNCHANGED iter
    \/ LockSelf(1) /\ History(1) /\ Last(1) /\ UNCHANGED iter
    \/ RmTake(1) /\ History(1) /\ Last(1) /\ UNCHANGED iter
    \/ RmSoleTail(1) /\ History(1) /\ Last(1) /\ UNCHANGED iter
    \/ RmSoleHead(1) /\ History(1) /\ Last(1) /\ UNCHANGED iter
    \/ RmHeadHead(1) /\ History(1) /\ Last(1) /\ UNCHANGED iter
    \/ RmHeadNext(1) /\ History(1) /\ Last(1) /\ UNCHANGED iter
    \/ RmHeadFix(1) /\ History(1) /\ Last(1) /\ UNCHANGED iter
    \/ RmTailTail(1) /\ History(1) /\ Last(1) /\ UNCHANGED iter
    \/ RmTailPrev(1) /\ History(1) /\ Last(1) /\ UNCHANGED iter
    \/ RmMidPrev(1) /\ History(1) /\ Last(1) /\ UNCHANGED iter
    \/ RmMidNext(1) /\ History(1) /\ Last(1) /\ UNCHANGED iter
    \/ RmMidFix(1) /\ History(1) /\ Last(1) /\ UNCHANGED iter
    \/ PbTail(1) /\ History(1) /\ Last(1) /\ UNCHANGED iter
    \/ PbTry(1) /\ History(1) /\ Last(1) /\ UNCHANGED iter
    \/ PbHead(1) /\ History(1) /\ Last(1) /\ UNCHANGED iter
    \/ PbRet(1) /\ History(1) /\ Last(1) /\ UNCHANGED iter
    \/ PbAssert(1) /\ History(1) /\ Last(1) /\ UNCHANGED iter
    \/ Done(1) /\ History(1) /\ Last(1) /\ UNCHANGED iter

SpecSeq == Init /\ [][NextSeq]_vars

\* Several threads on one list, each on the nodes it pushed itself, every
\* handle retained.
NextConc ==
    \/ \E t \in Threads : StartPush(t, 1, ConcCap) /\ UNCHANGED ghost
    \/ \E t \in Threads, n \in Nodes : StartPut(t, 1, n) /\ UNCHANGED ghost
    \/ \E t \in Threads, n \in Nodes : StartRemove(t, n) /\ UNCHANGED ghost
    \/ \E t \in Threads : LockSelf(t) /\ UNCHANGED ghost
    \/ \E t \in Threads : RmTake(t) /\ UNCHANGED ghost
    \/ \E t \in Threads : RmSoleTail(t) /\ UNCHANGED ghost
    \/ \E t \in Threads : RmSoleHead(t) /\ UNCHANGED ghost
    \/ \E t \in Threads : RmHeadHead(t) /\ UNCHANGED ghost
    \/ \E t \in Threads : RmHeadNext(t) /\ UNCHANGED ghost
    \/ \E t \in Threads : RmHeadFix(t) /\ UNCHANGED ghost
    \/ \E t \in Threads : RmTailTail(t) /\ UNCHANGED ghost
    \/ \E t \in Threads : RmTailPrev(t) /\ UNCHANGED ghost
    \/ \E t \in Threads : RmMidPrev(t) /\ UNCHANGED ghost
    \/ \E t \in Threads : RmMidNext(t) /\ UNCHANGED ghost
    \/ \E t \in Threads : RmMidFix(t) /\ UNCHANGED ghost
    \/ \E t \in Threads : PbTail(t) /\ UNCHANGED ghost
    \/ \E t \in Threads : PbTry(t) /\ UNCHANGED ghost
    \/ \E t \in Threads : PbHead(t) /\ UNCHANGED ghost
    \/ \E t \in Threads : PbRet(t) /\ UNCHANGED ghost
    \/ \E t \in Threads : PbAssert(t) /\ UNCHANGED ghost
    \/ \E t \in Threads : Done(t) /\ UNCHANGED ghost

SpecConc == Init /\ [][NextConc]_vars

\* Several threads on one list that call only put_back and remove, each on
\* the nodes it made itself with Node::new, every handle retained.
NextPut ==
    \/ \E t \in Threads : StartNew(t, ConcCap) /\ UNCHANGED calls /\ Iter(t)
    \/ \E t \in Threads, n \in Nodes : StartPut(t, 1, n) /\ UNCHANGED calls /\ Iter(t)
    \/ \E t \in Threads, n \in Nodes : StartRemove(t, n) /\ UNCHANGED calls /\ Iter(t)
    \/ \E t \in Threads : LockSelf(t) /\ UNCHANGED calls /\ Iter(t)
    \/ \E t \in Threads : RmTake(t) /\ UNCHANGED calls /\ Iter(t)
    \/ \E t \in Threads : RmSoleTail(t) /\ UNCHANGED calls /\ Iter(t)
    \/ \E t \in Threads : RmSoleHead(t) /\ UNCHANGED calls /\ Iter(t)
    \/ \E t \in Threads : RmHeadHead(t) /\ UNCHANGED calls /\ Iter(t)
    \/ \E t \in Threads : RmHeadNext(t) /\ UNCHANGED calls /\ Iter(t)
    \/ \E t \in Threads : RmHeadFix(t) /\ UNCHANGED calls /\ Iter(t)
    \/ \E t \in Threads : RmTailTail(t) /\ UNCHANGED calls /\ Iter(t)
    \/ \E t \in Threads : RmTailPrev(t) /\ UNCHANGED calls /\ Iter(t)
    \/ \E t \in Threads : RmMidPrev(t) /\ UNCHANGED calls /\ Iter(t)
    \/ \E t \in Threads : RmMidNext(t) /\ UNCHANGED calls /\ Iter(t)
    \/ \E t \in Threads : RmMidFix(t) /\ UNCHANGED calls /\ Iter(t)
    \/ \E t \in Threads : PbTail(t) /\ UNCHANGED calls /\ Iter(t)
    \/ \E t \in Threads : PbTry(t) /\ UNCHANGED calls /\ Iter(t)
    \/ \E t \in Threads : PbHead(t) /\ UNCHANGED calls /\ Iter(t)
    \/ \E t \in Threads : PbRet(t) /\ UNCHANGED calls /\ Iter(t)
    \/ \E t \in Threads : Done(t) /\ UNCHANGED calls /\ Iter(t)

SpecPut == Init /\ [][NextPut]_vars

\* Several threads that call only push_back on one list.
NextPush ==
    \/ \E t \in Threads : StartPush(t, 1, ConcCap) /\ UNCHANGED ghost
    \/ \E t \in Threads : LockSelf(t) /\ UNCHANGED ghost
    \/ \E t \in Threads : RmTake(t) /\ UNCHANGED ghost
    \/ \E t \in Threads : PbTail(t) /\ UNCHANGED ghost
    \/ \E t \in Threads : PbTry(t) /\ UNCHANGED ghost
    \/ \E t \in Threads : PbHead(t) /\ UNCHANGED ghost
    \/ \E t \in Threads : PbRet(t) /\ UNCHANGED ghost
    \/ \E t \in Threads : PbAssert(t) /\ UNCHANGED ghost
    \/ \E t \in Threads : Done(t) /\ UNCHANGED ghost

\* The next step of a push_back that thread t has begun.
PushStep(t) ==
    /\ \/ LockSelf(t) \/ RmTake(t) \/ PbTail(t) \/ PbTry(t) \/ PbHead(t)
       \/ PbRet(t) \/ PbAssert(t) \/ Done(t)
    /\ UNCHANGED ghost

\* Fair scheduling: a thread whose next step stays possible takes it.
SpecPush ==
    /\ Init
    /\ [][NextPush]_vars
    /\ \A t \in Threads : WF_vars(PushStep(t))

\* The same threads, which may also walk the list: head(), then next() under
\* the lock of each node.
NextRead ==
    \/ NextConc
    \/ \E t \in Threads : StartHead(t, 1) /\ UNCHANGED ghost
    \/ \E t \in Threads : HdRead(t) /\ UNCHANGED ghost
    \/ \E t \in Threads : NxRead(t) /\ UNCHANGED ghost

SpecRead == Init /\ [][NextRead]_vars

\* A dropped handle takes the node out of the expected order, as a detach
\* would.
DropHistory(n) ==
    /\ order' = [l \in Lists |-> Without(order[l], n)]
    /\ UNCHANGED <<pre, det, last>>

\* One thread on one list that may also drop the handle of a node, or its
\* handle of the list, between operations.
NextDrop ==
    \/ StartPush(1, 1, DropCap) /\ History(1) /\ UNCHANGED <<last, iter>>
    \/ \E n \in Nodes : StartPut(1, 1, n) /\ History(1) /\ UNCHANGED <<last, iter>>
    \/ \E n \in Nodes : StartRemove(1, n) /\ History(1) /\ UNCHANGED <<last, iter>>
    \/ \E n \in Nodes : DropNode(1, n) /\ DropHistory(n) /\ UNCHANGED iter
    \/ th[1].pc = "idle" /\ DropList(1) /\ UNCHANGED ghost
    \/ LockSelf(1) /\ History(1) /\ UNCHANGED <<last, iter>>
    \/ RmTake(1) /\ History(1) /\ UNCHANGED <<last, iter>>
    \/ RmSoleTail(1) /\ History(1) /\ UNCHANGED <<last, iter>>
    \/ RmSoleHead(1) /\ History(1) /\ UNCHANGED <<last, iter>>
    \/ RmHeadHead(1) /\ History(1) /\ UNCHANGED <<last, iter>>
    \/ RmHeadNext(1) /\ History(1) /\ UNCHANGED <<last, iter>>
    \/ RmHeadFix(1) /\ History(1) /\ UNCHANGED <<last, iter>>
    \/ RmTailTail(1) /\ History(1) /\ UNCHANGED <<last, iter>>
    \/ RmTailPrev(1) /\ History(1) /\ UNCHANGED <<last, iter>>
    \/ RmMidPrev(1) /\ History(1) /\ UNCHANGED <<last, iter>>
    \/ RmMidNext(1) /\ History(1) /\ UNCHANGED <<last, iter>>
    \/ RmMidFix(1) /\ History(1) /\ UNCHANGED <<last, iter>>
    \/ PbTail(1) /\ History(1) /\ UNCHANGED <<last, iter>>
    \/ PbTry(1) /\ History(1) /\ UNCHANGED <<last, iter>>
    \/ PbHead(1) /\ History(1) /\ UNCHANGED <<last, iter>>
    \/ PbRet(1) /\ History(1) /\ UNCHANGED <<last, iter>>
    \/ PbAssert(1) /\ History(1) /\ UNCHANGED <<last, iter>>
    \/ Done(1) /\ History(1) /\ UNCHANGED <<last, iter>>

SpecDrop == Init /\ [][NextDrop]_vars

\* ------------------------------------------------------------------ claims
\* The single thread is between operations or has just returned from one.
SeqQuiet == th[1].pc \in {"idle", "done"}
Members(l) == {n \in Nodes : node[n].parent = l}

\* C1: single-threaded, all handles retained: after any sequence of
\* push_back and put_back calls (and detaches), head followed by repeated
\* next visits exactly the attached nodes of the list, each once, in the
\* order of their latest push_back/put_back, oldest first, and then none.
C1_TraversalIsOrder ==
    SeqQuiet =>
        \A l \in Lists :
            /\ Traversal(l) = order[l]
            /\ Range(order[l]) = Members(l)

\* C1 witness: a, b, c, d pushed and then put back as d, c, b, a are
\* traversed as d, c, b, a.
C1_Witness ==
    /\ th[1].pc = "done"
    /\ th[1].op = "put"
    /\ order[1] = <<4, 3, 2, 1>>
    /\ Traversal(1) = <<4, 3, 2, 1>>

\* put_back (also the one inside push_back) has just set the tail slot and
\* returned, in a single-threaded run.
PutReturned ==
    /\ th[1].op \in {"put", "push"}
    /\ th[1].pc \in {"pb_assert", "done"}

\* C4: single-threaded: when put_back(node) returns, the node's parent is
\* this list, its next is empty, the tail slot refers to it, its prev is
\* the tail left by the detach (empty if none) and that node's next is the
\* node; the head slot is the node if the list had no other element, and
\* otherwise what it was after the detach.
C4_PutBackPost ==
    PutReturned =>
        LET n == th[1].self
            l == th[1].list
            oldTail == det.list[l].tail
        IN
        /\ node[n].parent = l
        /\ node[n].next = None
        /\ list[l].tail = n
        /\ node[n].prev = oldTail
        /\ oldTail # None => node[oldTail].next = n
        /\ IF Traverse(det, l) = <<>>
           THEN list[l].head = n
           ELSE list[l].head = det.list[l].head

\* C4 witness: put_back of an attached node onto its list, which has other
\* elements.
C4_Witness ==
    /\ PutReturned
    /\ th[1].op = "put"
    /\ Len(Traverse(det, th[1].list)) >= 2
    /\ pre.node[th[1].self].parent = th[1].list
    /\ node[th[1].self].prev # None

\* Node::remove called by the caller has just returned, single-threaded,
\* on a node that was attached.
RemoveReturned ==
    /\ th[1].op = "remove"
    /\ th[1].pc = "done"
    /\ pre.node[th[1].self].parent # NoList

\* C5: single-threaded: after remove on an attached node its parent, prev
\* and next are empty and the traversal of its list visits the other
\* previously attached nodes in their previous order.
C5_RemovePost ==
    RemoveReturned =>
        LET n == th[1].self
            l == pre.node[n].parent
        IN
        /\ node[n] = [parent |-> NoList, prev |-> None, next |-> None]
        /\ Traversal(l) = Without(Traverse(pre, l), n)
        /\ n \in Range(Traverse(pre, l))

\* C5 witness: a node with both neighbours has been removed.
C5_Witness ==
    /\ RemoveReturned
    /\ Len(Traversal(pre.node[th[1].self].parent)) >= 2
    /\ pre.node[th[1].self].prev # None
    /\ pre.node[th[1].self].next # None

\* C6: single-threaded boundaries of remove: detaching the head of a list
\* of two or more makes head() return the former second element, whose
\* prev is cleared; detaching the tail of such a list makes the tail slot
\* the former second-to-last element, whose next is cleared; detaching
\* the only element empties both slots, so head() returns none.
C6_RemoveBoundary ==
    RemoveReturned =>
        LET n == th[1].self
            l == pre.node[n].parent
            was == Traverse(pre, l)
            k == Len(was)
        IN
        /\ (k >= 2 /\ was[1] = n) =>
              /\ Upgrade(list[l].head) = was[2]
              /\ node[was[2]].prev = None
        /\ (k >= 2 /\ was[k] = n) =>
              /\ list[l].tail = was[k - 1]
              /\ node[was[k - 1]].next = None
        /\ was = <<n>> =>
              /\ list[l].head = None
              /\ list[l].tail = None
              /\ Upgrade(list[l].head) = None

\* C6 witness: the head of a list of three has been detached.
C6_Witness ==
    /\ RemoveReturned
    /\ Len(Traverse(pre, pre.node[th[1].self].parent)) = 3
    /\ Traverse(pre, pre.node[th[1].self].parent)[1] = th[1].self
    /\ Len(Traversal(pre.node[th[1].self].parent)) = 2

\* The mutex the next step of thread t acquires with a blocking lock(), by
\* its position in put_back (lines 47, 51, 64), remove (lines 139-160),
\* head (line 79) and the caller's lock of a node.
NoMutex == <<"none", 0>>
WaitsFor(t) ==
    CASE th[t].pc = "lock" -> NodeMx(th[t].self)
      [] th[t].pc = "rm_sole_tail" -> TailMx(th[t].parent)
      [] th[t].pc = "rm_sole_head" -> HeadMx(th[t].parent)
      [] th[t].pc = "rm_head_head" -> HeadMx(th[t].parent)
      [] th[t].pc = "rm_head_next" -> NodeMx(th[t].next)
      [] th[t].pc = "rm_tail_tail" -> TailMx(th[t].parent)
      [] th[t].pc = "rm_tail_prev" -> NodeMx(th[t].prev)
      [] th[t].pc = "rm_mid_prev" -> NodeMx(th[t].prev)
      [] th[t].pc = "rm_mid_next" -> NodeMx(th[t].next)
      [] th[t].pc = "pb_tail" -> TailMx(th[t].list)
      [] th[t].pc = "pb_head" -> HeadMx(th[t].list)
      [] th[t].pc = "hd" -> HeadMx(th[t].list)
      [] th[t].pc = "nx" -> NodeMx(th[t].cur)
      [] OTHER -> NoMutex

\* Thread t is in a blocking lock() of a mutex somebody holds.
Blocked(t) == WaitsFor(t) # NoMutex /\ holder[WaitsFor(t)] # NoThread

\* Every thread of S waits for a mutex held by a thread of S.
Deadlocked(S) ==
    /\ S # {}
    /\ \A t \in S : Blocked(t) /\ holder[WaitsFor(t)] \in S

\* C2: threads that put_back their own nodes and threads that lock and
\* remove their own nodes never deadlock: no set of threads each waits for
\* a lock held by another thread of the set.
C2_NoDeadlock ==
    \A S \in SUBSET Threads :
        (\A t \in S : th[t].op \in {"put", "remove"}) => ~Deadlocked(S)

\* Every operation has returned and no lock is held.
Quiescent ==
    /\ \A t \in Threads : th[t].pc \in {"idle", "done"}
    /\ \A m \in Mutexes : holder[m] = NoThread

Consistent(l) ==
    LET h == list[l].head
        tl == list[l].tail
        w == Traversal(l)
    IN
    /\ (h = None) <=> (tl = None)
    /\ h # None => node[h].prev = None
    /\ tl # None => node[tl].next = None
    /\ \A x \in Members(l) :
          node[x].next # None => node[node[x].next].prev = x
    /\ Range(w) = Members(l)
    /\ Len(w) = Cardinality(Members(l))
    /\ w # <<>> => w[Len(w)] = tl

\* C3: when all concurrently issued put_back/push_back/remove operations
\* (threads on disjoint nodes, handles retained) have returned and no lock
\* is held, head is empty iff tail is, the head node has no prev and the
\* tail node no next, next and prev mirror each other, and next from head
\* reaches tail visiting exactly the nodes whose parent is the list, once.
C3_QuiescentConsistent == Quiescent => \A l \in Lists : Consistent(l)

\* C3 witness: a put_back of one thread and a remove of the other have both
\* just returned, leaving two members owned by different threads with the
\* first node created at the tail.
C3_Witness ==
    /\ Quiescent
    /\ th[1].pc = "done"
    /\ th[2].pc = "done"
    /\ th[1].op = "put"
    /\ th[2].op = "remove"
    /\ Len(Traversal(1)) = 2
    /\ Traversal(1)[2] = 1
    /\ Cardinality({owner[n] : n \in Members(1)}) = 2

\* C7: a thread in put_back never waits in a blocking acquisition of the
\* lock of a node other than the one being moved: it blocks only on the
\* moved node's own lock and on the list's tail and head slots.
C7_PutBackBlocksOnlyOnOwn ==
    \A t \in Threads :
        (th[t].op \in {"put", "push"} /\ Blocked(t)) =>
            WaitsFor(t) \in {NodeMx(th[t].self)}
                            \cup {TailMx(l) : l \in Lists}
                            \cup {HeadMx(l) : l \in Lists}

\* C8: when push_back checks its assertion, the new node has exactly one
\* owning handle, whatever other threads do on the list.
C8_PushAssertHolds ==
    \A t \in Threads : th[t].pc = "pb_assert" => PushAssertOk(th[t].self)

\* C9: if the only handle of an attached node is dropped, the node is
\* removed from the list: afterwards head traversal visits exactly the
\* other attached nodes, in order, as after remove on that node.
C9_DropDetaches ==
    (SeqQuiet /\ lheld = Lists) => \A l \in Lists : Traversal(l) = order[l]

RemoveReturnedOrphan ==
    /\ th[1].op = "remove"
    /\ th[1].pc = "done"
    /\ pre.node[th[1].self].parent \notin lheld \cup {NoList}

RoundTripReturned ==
    /\ th[1].op = "put"
    /\ th[1].pc = "done"
    /\ last # <<>>
    /\ last.self = th[1].self
    /\ last.pre.node[th[1].self].parent = th[1].list

\* C11: round trip, single-threaded: remove on an attached node followed
\* by put_back of it on the same list leaves the head and tail slots, all
\* prev/next links and the head traversal as put_back alone would have
\* left them from the structure before the remove, the node at the tail;
\* and put_back alone leaves what the model's put_back steps leave.
C11_RoundTrip ==
    /\ RoundTripReturned =>
          LET n == th[1].self
              l == th[1].list
              alone == PutBackOf(last.pre, l, n)
          IN
          /\ list = alone.list
          /\ node = alone.node
          /\ Traversal(l) = Traverse(alone, l)
          /\ Traversal(l) = Append(Without(Traverse(last.pre, l), n), n)
    /\ (th[1].op = "put" /\ th[1].pc = "done") =>
          /\ list = PutBackOf(pre, th[1].list, th[1].self).list
          /\ node = PutBackOf(pre, th[1].list, th[1].self).node

\* C11 witness: the round trip of the middle node of a list of three.
C11_Witness ==
    /\ RoundTripReturned
    /\ Len(Traverse(last.pre, th[1].list)) = 3
    /\ Traverse(last.pre, th[1].list)[2] = th[1].self
    /\ Traversal(th[1].list)[3] = th[1].self

\* put_back(node) has returned, single-threaded, on the node that was the
\* tail of the list at the call.
PutOnTailReturned ==
    /\ th[1].op = "put"
    /\ th[1].pc = "done"
    /\ Upgrade(pre.list[th[1].list].tail) = th[1].self

\* C12: single-threaded: put_back on the node that is the tail leaves the
\* head traversal as it was (and the slots and links too, so a second
\* put_back of the same node changes nothing); when the node was the only
\* element, the list has one element: head() is the node and its next is
\* none.
C12_PutBackOnTail ==
    PutOnTailReturned =>
        LET n == th[1].self
            l == th[1].list
        IN
        /\ Traversal(l) = Traverse(pre, l)
        /\ list = pre.list
        /\ node = pre.node
        /\ Traverse(pre, l) = <<n>> =>
              /\ Traversal(l) = <<n>>
              /\ Upgrade(list[l].head) = n
              /\ Upgrade(node[n].next) = None

\* C12 witness: put_back of the tail of a list of three has returned.
C12_Witness ==
    /\ PutOnTailReturned
    /\ Len(Traverse(pre, th[1].list)) = 3
    /\ Traversal(th[1].list)[3] = th[1].self

\* C12 witness of the other case: put_back of the only element has returned.
C12_WitnessSole ==
    /\ PutOnTailReturned
    /\ Traverse(pre, th[1].list) = <<th[1].self>>

\* The caller has locked a node whose parent field is empty and is about
\* to run Node::remove on it.
RemoveUnattachedCalled ==
    /\ th[1].op = "remove"
    /\ th[1].pc = "rm_take"
    /\ node[th[1].self].parent = NoList

\* The caller has locked a node again right after a remove on it returned.
RemoveAgainCalled ==
    /\ th[1].op = "remove"
    /\ th[1].pc = "rm_take"
    /\ last # <<>>
    /\ last.self = th[1].self

\* C13: Node::remove on a node whose parent is empty is a no-op and not an
\* error: the call returns normally having acquired no lock (the caller's
\* lock of the node is the only one held, and is then dropped), with every
\* field of every node and both slots of every list as they were; so is a
\* second remove right after a first.
C13_RemoveUnattachedNoop ==
    [][(RemoveUnattachedCalled \/ RemoveAgainCalled) =>
          /\ th'[1].pc = "done"
          /\ \A m \in Mutexes : holder[m] = 1 => m = NodeMx(th[1].self)
          /\ holder' = Release(holder, {NodeMx(th[1].self)})
          /\ poisoned' = poisoned
          /\ node' = node
          /\ list' = list]_vars

\* C13 witness: remove has returned for the second time in a row on the
\* same node, which the first call had detached.
C13_Witness ==
    /\ th[1].op = "remove"
    /\ th[1].pc = "done"
    /\ pre.node[th[1].self].parent = NoList
    /\ last # <<>>
    /\ last.self = th[1].self
    /\ last.pre.node[th[1].self].parent # NoList
    /\ node = pre.node
    /\ list = pre.list

\* Nobody holds mutex m: a lock() of it succeeds at once.
Free(m) == holder[m] = NoThread

\* C14: partial splices are never observable by a lock holder: in every
\* reachable state of concurrent put_back/remove executions, for
\* any two live nodes whose locks are both free, the next of one refers to
\* the other iff the prev of the other refers to the first; a free head
\* slot that refers to a live node whose lock is free refers to a node
\* attached to this list with empty prev; a free tail slot that refers to
\* a live node whose lock is free refers to a node attached to this list
\* with empty next.
C14_NoPartialSplice ==
    /\ \A a \in LiveNodes, b \in LiveNodes :
          (Free(NodeMx(a)) /\ Free(NodeMx(b))) =>
              (node[a].next = b <=> node[b].prev = a)
    /\ \A l \in Lists :
          LET h == Upgrade(list[l].head)
          IN (Free(HeadMx(l)) /\ h # None /\ Free(NodeMx(h))) =>
                 /\ node[h].parent = l
                 /\ node[h].prev = None
    /\ \A l \in Lists :
          LET tl == Upgrade(list[l].tail)
          IN (Free(TailMx(l)) /\ tl # None /\ Free(NodeMx(tl))) =>
                 /\ node[tl].parent = l
                 /\ node[tl].next = None

\* C14 witness: a put_back is in the middle of its splice (the old tail's
\* next is already the moved node, the tail slot is not yet) while two
\* other nodes, linked to each other, have their locks free.
C14_Witness ==
    \E t \in Threads :
        /\ th[t].op = "put"
        /\ th[t].pc = "pb_head"
        /\ list[1].tail \in Nodes \ {th[t].self}
        /\ node[list[1].tail].next = th[t].self
        /\ \E a \in LiveNodes, b \in LiveNodes :
              /\ Free(NodeMx(a))
              /\ Free(NodeMx(b))
              /\ node[a].next = b

\* The step of thread t in which the try_lock of the old tail fails and the
\* loop of put_back starts again (lines 57-61).
RetryStep(t) == th[t].pc = "pb_try" /\ th'[t].pc = "pb_tail"

\* C15: an iteration of put_back's loop whose try_lock fails leaves no
\* state mutated: at the restart the moved node's parent, prev and next,
\* the old tail's fields and the list's head and tail slots have the
\* values they had when the iteration began.
C15_RetryMutatesNothing ==
    [][\A t \in Threads :
          RetryStep(t) =>
              /\ node'[th[t].self] = iter[t].node
              /\ list'[th[t].list].tail = iter[t].tail
              /\ node'[th[t].tail] = node[th[t].tail]
              /\ list' = list]_vars

\* C15 as amended: an iteration whose try_lock fails writes only the moved
\* node's parent (this list) and prev (the tail slot's value), which the
\* next iteration writes again; the moved node's next, the old tail's
\* fields and the head and tail slots are not written, the failing attempt
\* itself changes nothing, and it gives up the tail slot and keeps the
\* moved node's lock.
C15_RetryWritesOnlyParentPrev ==
    [][\A t \in Threads :
          RetryStep(t) =>
              /\ node'[th[t].self] = [iter[t].node EXCEPT
                                         !.parent = th[t].list,
                                         !.prev = iter[t].tail]
              /\ list'[th[t].list].tail = iter[t].tail
              /\ node' = node
              /\ list' = list
              /\ holder' = Release(holder, {TailMx(th[t].list)})
              /\ holder[NodeMx(th[t].self)] = t]_vars

\* C15 witness: put_back is back at the top of its loop after a failed
\* try_lock in its first iteration, which began with the node unattached.
C15_Witness ==
    \E t \in Threads :
        /\ th[t].pc = "pb_tail"
        /\ iter[t] # <<>>
        /\ iter[t].node.parent = NoList
        /\ node[th[t].self].parent = th[t].list
        /\ node[th[t].self].prev = iter[t].tail
        /\ iter[t].tail # None

\* The mutexes thread t holds.
HeldBy(t) == {m \in Mutexes : holder[m] = t}

\* Node::remove of thread t is before its first, before its second, or
\* after its second acquisition.
RemoveFirst == {"rm_sole_tail", "rm_head_head", "rm_tail_tail", "rm_mid_prev"}
RemoveSecond == {"rm_sole_head", "rm_head_next", "rm_tail_prev", "rm_mid_next"}
RemoveThird == {"rm_head_fix", "rm_mid_fix"}

\* The order the claim gives for the case of thread t's remove, from the
\* predecessor and successor remove took.
LockOrder(t) ==
    LET p == th[t].parent
        pv == th[t].prev
        nx == th[t].next
    IN
    IF pv = None /\ nx = None THEN <<TailMx(p), HeadMx(p)>>
    ELSE IF pv = None THEN <<HeadMx(p), NodeMx(nx)>>
    ELSE IF nx = None THEN <<TailMx(p), NodeMx(pv)>>
    ELSE <<NodeMx(pv), NodeMx(nx)>>

\* C16: Node::remove acquires its locks in a fixed order per case, with
\* the node's own lock held by the caller throughout: only element - tail
\* slot, then head slot; head - head slot, then the successor; tail - tail
\* slot, then the predecessor; middle - the predecessor, then the
\* successor.  A list slot comes before any neighbour, and remove holds
\* and acquires no lock outside this order.
C16_RemoveLockOrder ==
    /\ [](\A t \in Threads :
            th[t].pc \in RemoveFirst \cup RemoveSecond \cup RemoveThird =>
                /\ holder[NodeMx(th[t].self)] = t
                /\ th[t].pc \in RemoveFirst =>
                      /\ HeldBy(t) = {NodeMx(th[t].self)}
                      /\ WaitsFor(t) = LockOrder(t)[1]
                /\ th[t].pc \in RemoveSecond =>
                      /\ HeldBy(t) = {NodeMx(th[t].self), LockOrder(t)[1]}
                      /\ WaitsFor(t) = LockOrder(t)[2]
                /\ th[t].pc \in RemoveThird =>
                      HeldBy(t) = {NodeMx(th[t].self), LockOrder(t)[1],
                                   LockOrder(t)[2]}
                /\ LockOrder(t)[2][1] \in {"head", "tail"} =>
                      LockOrder(t)[1][1] \in {"head", "tail"})
    /\ [][\A t \in Threads :
            /\ (th[t].pc \in RemoveFirst /\ th'[t].pc \in RemoveSecond) =>
                  /\ holder[LockOrder(t)[1]] = NoThread
                  /\ holder' = Acquire(holder, LockOrder(t)[1], t)
            /\ (th[t].pc \in RemoveSecond /\ th'[t].pc \in RemoveThird) =>
                  /\ holder[LockOrder(t)[2]] = NoThread
                  /\ holder' = Acquire(holder, LockOrder(t)[2], t)
            /\ (th[t].pc \in RemoveSecond
                    /\ th'[t].pc \notin RemoveSecond \cup RemoveThird) =>
                  /\ holder[LockOrder(t)[2]] = NoThread
                  /\ \A m \in Mutexes : holder'[m] = t => holder[m] = t
            /\ (th[t].pc \in RemoveThird /\ th'[t].pc \notin RemoveThird) =>
                  \A m \in Mutexes : holder'[m] = t => holder[m] = t]_vars

\* C16 witness: a remove of the head node holds the head slot and its
\* successor, while a remove of the tail node holds the tail slot and is
\* about to lock its predecessor, the same node.
C16_Witness ==
    /\ th[1].pc = "rm_head_fix"
    /\ holder[HeadMx(th[1].parent)] = 1
    /\ holder[NodeMx(th[1].next)] = 1
    /\ th[2].pc = "rm_tail_prev"
    /\ holder[TailMx(th[2].parent)] = 2
    /\ th[1].next = th[2].prev

\* C17: a node is never half-attached: in every reachable state, every
\* live node whose lock is not held and whose parent does not resolve to a
\* list has a prev and a next that do not resolve to nodes; and no debug
\* assertion of Node::remove's unattached path has failed.
C17_NeverHalfAttached ==
    /\ \A n \in LiveNodes :
          (Free(NodeMx(n)) /\ UpgradeList(node[n].parent) = NoList) =>
              /\ Upgrade(node[n].prev) = None
              /\ Upgrade(node[n].next) = None
    /\ \A t \in Threads :
          (th[t].pc = "rm_take" /\ UpgradeList(node[th[t].self].parent) = NoList) =>
              /\ Upgrade(node[th[t].self].prev) = None
              /\ Upgrade(node[th[t].self].next) = None

\* No push_back is running: every call made has returned.
AllPushesReturned == \A t \in Threads : th[t].pc \in {"idle", "done"}

\* C18: threads that concurrently call only push_back on one list, under
\* fair scheduling: every call eventually returns (no call ends in a panic,
\* the retry loop does not spin forever and no deadlock is reached), and
\* once all calls have returned all pushed nodes form one chain from head
\* to tail.
C18_PushBackReturns ==
    /\ [](\A t \in Threads : th[t].pc # "panicked")
    /\ \A t \in Threads : (th[t].op = "push") ~> (th[t].pc = "done")
    /\ [](AllPushesReturned =>
            /\ Consistent(1)
            /\ Range(Traversal(1)) = 1..alloc
            /\ Len(Traversal(1)) = alloc)

\* The single thread runs, or has just returned from, a call whose
\* Node::remove found the node attached with a live predecessor and a live
\* successor.
MiddleCall ==
    /\ th[1].op \in {"remove", "put"}
    /\ pre # <<>>
    /\ pre.node[th[1].self].parent # NoList
    /\ UpgradeIn(pre, pre.node[th[1].self].prev) # None
    /\ UpgradeIn(pre, pre.node[th[1].self].next) # None

\* The nodes after a middle remove of n: n's three fields empty, the
\* predecessor's next the successor, the successor's prev the predecessor.
AfterMiddleRemove(S, n) ==
    [S.node EXCEPT ![n] = [parent |-> NoList, prev |-> None, next |-> None],
                   ![S.node[n].prev].next = S.node[n].next,
                   ![S.node[n].next].prev = S.node[n].prev]

\* C19: Node::remove on a node that has both a live predecessor and a live
\* successor never acquires or changes the head or tail slot of the list:
\* while it runs it holds no slot and both slots keep their values, and
\* when it returns only the predecessor's next, the successor's prev and
\* the node's own three fields have changed.
C19_MiddleRemoveFrame ==
    MiddleCall =>
        /\ th[1].pc \in RemoveFirst \cup RemoveSecond \cup RemoveThird =>
              /\ th[1].pc \in {"rm_mid_prev", "rm_mid_next", "rm_mid_fix"}
              /\ \A l \in Lists : holder[HeadMx(l)] # 1 /\ holder[TailMx(l)] # 1
              /\ list = pre.list
        /\ (th[1].op = "remove" /\ th[1].pc = "done") =>
              /\ list = pre.list
              /\ node = AfterMiddleRemove(pre, th[1].self)
        /\ (th[1].op = "put" /\ det # <<>>) =>
              /\ det.list = pre.list
              /\ det.node = AfterMiddleRemove(pre, th[1].self)

\* C19 witness: remove has returned on the second node of a list of four,
\* whose head and tail slots are as before.
C19_Witness ==
    /\ MiddleCall
    /\ th[1].op = "remove"
    /\ th[1].pc = "done"
    /\ Len(Traverse(pre, 1)) = 4
    /\ Traverse(pre, 1)[2] = th[1].self
    /\ Len(Traversal(1)) = 3
    /\ list[1] = pre.list[1]

\* put_back(node) on list L2 has returned, single-threaded, for a node that
\* was attached to another list L1 at the call.
ReHomed ==
    /\ th[1].op = "put"
    /\ th[1].pc = "done"
    /\ pre.node[th[1].self].parent \notin {NoList, th[1].list}

\* C20: re-homing, single-threaded: L2.put_back(node) on a node attached
\* to another list L1 detaches it from L1, whose slots and links are
\* repaired exactly as Node::remove repairs them, and appends it at the
\* tail of L2 with parent L2: afterwards both lists are consistent chains,
\* L1's traversal is the earlier one without the node and L2's the earlier
\* one followed by the node.
C20_ReHoming ==
    /\ ReHomed =>
          LET n == th[1].self
              l2 == th[1].list
              l1 == pre.node[n].parent
          IN
          /\ det.list = DetachOf(pre, n).list
          /\ det.node = DetachOf(pre, n).node
          /\ node[n].parent = l2
          /\ list[l2].tail = n
          /\ node[n].next = None
          /\ Consistent(l1)
          /\ Consistent(l2)
          /\ Traversal(l1) = Without(Traverse(pre, l1), n)
          /\ Traversal(l2) = Append(Traverse(pre, l2), n)
          /\ n \notin Range(Traversal(l1))
    /\ (th[1].op = "remove" /\ th[1].pc = "done") =>
          /\ list = DetachOf(pre, th[1].self).list
          /\ node = DetachOf(pre, th[1].self).node

\* C20 witness: the tail of a two-element list has been re-homed to a list
\* that had one element.
C20_Witness ==
    /\ ReHomed
    /\ Len(Traverse(pre, pre.node[th[1].self].parent)) = 2
    /\ Traverse(pre, pre.node[th[1].self].parent)[2] = th[1].self
    /\ Len(Traverse(pre, th[1].list)) = 1
    /\ Len(Traversal(th[1].list)) = 2

====
